---- MODULE Spec2Model ----
(***************************************************************************)
(* A model of the three snippets of ts-design-patterns:                    *)
(*   - Builder   (src/creational/builder/lunch.ts): class HotDog and the   *)
(*     chain  new HotDog('gluten free').addKetchup().addMustard()          *)
(*   - Singleton (README, Settings.getInstance)                            *)
(*   - Prototype (src/creational/prototype/workout.ts): Object.create      *)
(* The snippets share no objects; each has its own specification (Spec,    *)
(* SpecSingleton, SpecPrototype).  lunch.ts and workout.ts both write the  *)
(* console.                                                                *)
(*                                                                         *)
(* JavaScript values are modelled as strings: the value undefined is       *)
(* "undefined", the booleans are "true" and "false".  An optional          *)
(* parameter that is omitted has the value undefined.                      *)
(***************************************************************************)
EXTENDS Naturals, Sequences, FiniteSets, TLC

Undefined == "undefined"
True == "true"
False == "false"

\* ------------------------------------------------------------------------
\* Bounds
\* ------------------------------------------------------------------------
\* add-calls in one chained expression
MaxChain == 3
\* callers of Settings.getInstance, and calls each of them makes
NumClients == 3
MaxGets == 4
\* objects of the prototype snippet, the object literal included
MaxObjs == 3

\* Inputs of the HotDog constructor.  Each optional parameter (boolean |
\* undefined) is omitted or undefined, true, or false.
Breads == {"gluten free", "white"}
\* The caller's variables that hold a HotDog (const myLunch = new HotDog(...)):
\* one object is allocated per variable.  With the three-valued optional
\* arguments a third object takes the state space from 10^5 to over 10^7
\* states, so the number of objects is fixed by this set.
Holders == {"myLunch", "yourLunch"}
OptArgs == {Undefined, True, False}
Methods == {"addKetchup", "addMustard", "addKraut"}

\* ------------------------------------------------------------------------
\* Builder: state
\* ------------------------------------------------------------------------
VARIABLES
    heap,      \* the HotDog objects allocated so far, by reference 1..Len(heap)
    cur,       \* the value of the caller's chained expression (a reference, 0: none)
    chainObj,  \* history: the object the current chain started on
    fresh,     \* history: the constructor's arguments while the chain is the one
               \*          that began with `new`; <<>> otherwise
    made,      \* history: the bread argument of each constructor call, in order
    start,     \* history: the fields of chainObj when the chain started
    hist,      \* history: the methods called in the current chain, in order
    before     \* history: the fields of the receiver before the last method call

\* Singleton: state
VARIABLES
    instance,      \* the static field Settings.instance (a reference, 0: undefined)
    settingsHeap,  \* the Settings objects constructed so far
    got,           \* per caller: the reference its last getInstance() returned (0: none)
    gets,          \* per caller: the number of getInstance() calls it made
    returned       \* history: every reference getInstance() has returned

\* Prototype: state
VARIABLES
    objs,      \* the objects of workout.ts, by reference 1..Len(objs)
    derivs     \* history: per Object.create call, its arguments and what the
               \*          prototype resolved for each key before the call

\* The console, which lunch.ts and workout.ts both write
VARIABLES
    console    \* the value last written by console.log (undefined: none yet)

vars == <<heap, cur, chainObj, fresh, made, start, hist, before,
          instance, settingsHeap, got, gets, returned,
          objs, derivs, console>>
builderVars == <<heap, cur, chainObj, fresh, made, start, hist, before>>
singletonVars == <<instance, settingsHeap, got, gets, returned>>
prototypeVars == <<objs, derivs>>

NoItem == [bread |-> "", ketchup |-> Undefined, mustard |-> Undefined, kraut |-> Undefined]

\* ------------------------------------------------------------------------
\* Builder: class HotDog
\* ------------------------------------------------------------------------
\* A constructor that forgets the bread (a parameter without `public`).
HotDog_noBread(bread, ketchup, mustard, kraut) ==
    [this |-> [bread |-> Undefined, ketchup |-> ketchup, mustard |-> mustard,
               kraut |-> kraut],
     log |-> Undefined]

\* A constructor whose optional parameters default to false (ketchup = false, ...).
HotDog_defaultFalse(bread, ketchup, mustard, kraut) ==
    [this |-> [bread |-> bread,
               ketchup |-> IF ketchup = Undefined THEN False ELSE ketchup,
               mustard |-> IF mustard = Undefined THEN False ELSE mustard,
               kraut |-> IF kraut = Undefined THEN False ELSE kraut],
     log |-> bread]

\* constructor(public bread, public ketchup?, public mustard?, public kraut?):
\* each parameter property is assigned to the field of its name, then the body
\* runs console.log(this.bread).  `this` is the object made, `log` the value
\* written to the console.
HotDog(bread, ketchup, mustard, kraut) ==
    LET this == [bread |-> bread, ketchup |-> ketchup, mustard |-> mustard,
                 kraut |-> kraut]
    IN  [this |-> this, log |-> this.bread]

\* addKetchup that flips the field instead of setting it.
addKetchup_toggle(h, this) ==
    [heap |-> [h EXCEPT ![this].ketchup = IF @ = True THEN False ELSE True],
     ret |-> this]

\* addKetchup that returns a copy instead of the receiver.
addKetchup_copy(h, this) ==
    [heap |-> Append(h, [h[this] EXCEPT !.ketchup = True]),
     ret |-> Len(h) + 1]

\* addKetchup that writes the wrong field.
addKetchup_bread(h, this) ==
    [heap |-> [h EXCEPT ![this].bread = "ketchup"],
     ret |-> this]

\* addKetchup() { this.ketchup = true; return this; }
addKetchup(h, this) ==
    [heap |-> [h EXCEPT ![this].ketchup = True],
     ret |-> this]

\* addMustard pasted from addKetchup with the field left unchanged.
addMustard_paste(h, this) ==
    [heap |-> [h EXCEPT ![this].ketchup = True],
     ret |-> this]

\* addMustard that only acts once ketchup is on.
addMustard_afterKetchup(h, this) ==
    [heap |-> [h EXCEPT ![this].mustard = IF h[this].ketchup = True THEN True ELSE @],
     ret |-> this]

\* addMustard() { this.mustard = true; return this; }
addMustard(h, this) ==
    [heap |-> [h EXCEPT ![this].mustard = True],
     ret |-> this]

\* addKraut that clears the field when it is already set.
addKraut_toggle(h, this) ==
    [heap |-> [h EXCEPT ![this].kraut = IF @ = True THEN False ELSE True],
     ret |-> this]

\* addKraut() { this.kraut = true; return this; }
addKraut(h, this) ==
    [heap |-> [h EXCEPT ![this].kraut = True],
     ret |-> this]

\* Method dispatch by name: obj.m()
Call(m, h, this) ==
    CASE m = "addKetchup" -> addKetchup(h, this)
      [] m = "addMustard" -> addMustard(h, this)
      [] m = "addKraut"   -> addKraut(h, this)


\* ------------------------------------------------------------------------
\* Builder: the caller's steps
\* ------------------------------------------------------------------------
BuilderInit ==
    /\ heap = <<>>
    /\ cur = 0
    /\ chainObj = 0
    /\ fresh = <<>>
    /\ made = <<>>
    /\ start = NoItem
    /\ hist = <<>>
    /\ before = NoItem

\* new HotDog(b, k, m, kr): allocates one object and starts a chain on it.
New(b, k, m, kr) ==
    /\ Len(heap) < Cardinality(Holders)
    /\ heap' = Append(heap, HotDog(b, k, m, kr).this)
    /\ console' = HotDog(b, k, m, kr).log
    /\ cur' = Len(heap) + 1
    /\ chainObj' = Len(heap) + 1
    /\ fresh' = <<b, k, m, kr>>
    /\ made' = Append(made, b)
    /\ start' = HotDog(b, k, m, kr).this
    /\ hist' = <<>>
    /\ before' = HotDog(b, k, m, kr).this
    /\ UNCHANGED <<singletonVars, prototypeVars>>

\* The caller starts another chain on an object it holds (myLunch. ...).
Resume(i) ==
    /\ i \in DOMAIN heap
    /\ cur' = i
    /\ chainObj' = i
    /\ fresh' = <<>>
    /\ start' = heap[i]
    /\ hist' = <<>>
    /\ before' = heap[i]
    /\ UNCHANGED <<heap, made>>
    /\ UNCHANGED <<singletonVars, prototypeVars, console>>

\* One method call of the chain:  <cur>.m()
Invoke(m) ==
    /\ cur \in DOMAIN heap
    /\ Len(hist) < MaxChain
    /\ LET r == Call(m, heap, cur)
       IN /\ heap' = r.heap
          /\ cur' = r.ret
    /\ hist' = Append(hist, m)
    /\ before' = heap[cur]
    /\ UNCHANGED <<chainObj, fresh, made, start>>
    /\ UNCHANGED <<singletonVars, prototypeVars, console>>

AddKetchup == Invoke("addKetchup")
AddMustard == Invoke("addMustard")
AddKraut == Invoke("addKraut")

\* ------------------------------------------------------------------------
\* Singleton: class Settings
\* ------------------------------------------------------------------------
Clients == 1..NumClients

\* new Settings(): the object with its readonly field mode = 'dark'
Settings == [mode |-> "dark"]

\* getInstance without the test of the static field.
getInstance_noGuard(inst, sh) ==
    [instance |-> Len(sh) + 1, heap |-> Append(sh, Settings), ret |-> Len(sh) + 1]

\* static getInstance(): if (!Settings.instance) Settings.instance = new Settings();
\*                       return Settings.instance;
getInstance(inst, sh) ==
    IF inst = 0
    THEN [instance |-> Len(sh) + 1, heap |-> Append(sh, Settings), ret |-> Len(sh) + 1]
    ELSE [instance |-> inst, heap |-> sh, ret |-> inst]

SingletonInit ==
    /\ instance = 0
    /\ settingsHeap = <<>>
    /\ got = [c \in Clients |-> 0]
    /\ gets = [c \in Clients |-> 0]
    /\ returned = {}

\* const settings = Settings.getInstance();   in caller c
GetInstance(c) ==
    /\ gets[c] < MaxGets
    /\ LET r == getInstance(instance, settingsHeap)
       IN /\ instance' = r.instance
          /\ settingsHeap' = r.heap
          /\ got' = [got EXCEPT ![c] = r.ret]
          /\ returned' = returned \cup {r.ret}
    /\ gets' = [gets EXCEPT ![c] = @ + 1]
    /\ UNCHANGED <<builderVars, prototypeVars, console>>

\* ------------------------------------------------------------------------
\* Prototype: workout.ts
\* ------------------------------------------------------------------------
PropKeys == {"name", "incline"}
PropVals == {"barbell bench", True}
AllKeys == PropKeys \cup {"startWorkout"}
\* The arguments Object.create may get as its property descriptors
PropMaps == UNION {[S -> {[value |-> v] : v \in PropVals}] : S \in SUBSET PropKeys}

\* const workout = { startWorkout() {...} }: an object whose prototype is
\* Object.prototype (0), which has none of the keys modelled.
workout == [proto |-> 0, own |-> [k \in {"startWorkout"} |-> "function startWorkout"]]

\* An Object.create that drops the prototype and keeps the properties alone.
ObjectCreate_flat(h, proto, props) ==
    Append(h, [proto |-> 0, own |-> [k \in DOMAIN props |-> props[k].value]])

\* Object.create(proto, props): a new object whose prototype is proto and whose
\* own properties are those props describes.
ObjectCreate(h, proto, props) ==
    Append(h, [proto |-> proto, own |-> [k \in DOMAIN props |-> props[k].value]])

\* Object.getPrototypeOf(o), o.__proto__
getPrototypeOf(h, o) == h[o].proto

\* o.k: the own property when there is one, else the prototype's, else undefined
RECURSIVE Get(_, _, _)
Get(h, o, k) ==
    IF o \notin DOMAIN h THEN Undefined
    ELSE IF k \in DOMAIN h[o].own THEN h[o].own[k]
    ELSE Get(h, h[o].proto, k)

\* What o resolves for every key
View(h, o) == [k \in AllKeys |-> Get(h, o, k)]

PrototypeInit ==
    /\ objs = <<workout>>
    /\ derivs = <<>>
    /\ console = Undefined

\* const x = Object.create(p, props);
Create(p, props) ==
    /\ Len(objs) < MaxObjs
    /\ p \in DOMAIN objs
    /\ objs' = ObjectCreate(objs, p, props)
    /\ derivs' = Append(derivs, [proto |-> p, props |-> props, sourceView |-> View(objs, p)])
    /\ UNCHANGED <<builderVars, singletonVars, console>>

\* console.log(o.k);
Log(o, k) ==
    /\ o \in DOMAIN objs
    /\ console' = Get(objs, o, k)
    /\ UNCHANGED prototypeVars
    /\ UNCHANGED <<builderVars, singletonVars>>

\* ------------------------------------------------------------------------
\* Specifications: one per snippet
\* ------------------------------------------------------------------------
Init == BuilderInit /\ SingletonInit /\ PrototypeInit

Next ==
    \/ \E b \in Breads, k \in OptArgs, m \in OptArgs, kr \in OptArgs : New(b, k, m, kr)
    \/ \E i \in 1..Cardinality(Holders) : Resume(i)
    \/ AddKetchup
    \/ AddMustard
    \/ AddKraut
Spec == Init /\ [][Next]_vars

NextSingleton == \E c \in Clients : GetInstance(c)
SpecSingleton == Init /\ [][NextSingleton]_vars

NextPrototype ==
    \/ \E p \in 1..MaxObjs, props \in PropMaps : Create(p, props)
    \/ \E o \in 1..MaxObjs, k \in AllKeys : Log(o, k)
SpecPrototype == Init /\ [][NextPrototype]_vars

\* ------------------------------------------------------------------------
\* Builder: properties
\* ------------------------------------------------------------------------
\* The field a method is named after
FieldOf(m) ==
    CASE m = "addKetchup" -> "ketchup"
      [] m = "addMustard" -> "mustard"
      [] m = "addKraut"   -> "kraut"

\* The methods called in the current chain
Invoked == {hist[i] : i \in DOMAIN hist}

\* The chain began with  new HotDog(b)  (the base alone)
CreatedWithBaseOnly ==
    /\ fresh # <<>>
    /\ fresh[2] = Undefined
    /\ fresh[3] = Undefined
    /\ fresh[4] = Undefined

\* A method applied to one object's fields
OnObject(m, o) == Call(m, <<o>>, 1).heap[1]

\* The methods of S applied to o in the fixed order ketchup, mustard, kraut
InFixedOrder(o, S) ==
    LET a == IF "addKetchup" \in S THEN OnObject("addKetchup", o) ELSE o
        b == IF "addMustard" \in S THEN OnObject("addMustard", a) ELSE a
    IN  IF "addKraut" \in S THEN OnObject("addKraut", b) ELSE b

\* C1: right after new HotDog(b), called with the base alone, the object's bread
\* is b and ketchup, mustard and kraut are all unset (undefined).
C1_CreateBaseAllUnset ==
    (CreatedWithBaseOnly /\ hist = <<>>) =>
        /\ cur \in DOMAIN heap
        /\ heap[cur] = [bread |-> fresh[1], ketchup |-> Undefined,
                        mustard |-> Undefined, kraut |-> Undefined]

C1_Witness ==
    /\ CreatedWithBaseOnly
    /\ hist = <<>>
    /\ fresh[1] = "gluten free"
    /\ console = "gluten free"
    /\ Len(heap) = 2

\* C2: during and after a chain of add-calls on an object, every option whose
\* method was called is true, every option whose method was not called has the
\* value it had when the chain started, the bread is unchanged, and on an object
\* that started with no option true the true options are exactly the called
\* ones.
C2_ChainSetsExactlyInvoked ==
    chainObj \in DOMAIN heap =>
        /\ \A m \in Methods :
              IF m \in Invoked
              THEN heap[chainObj][FieldOf(m)] = True
              ELSE heap[chainObj][FieldOf(m)] = start[FieldOf(m)]
        /\ heap[chainObj].bread = start.bread
        /\ (\A m \in Methods : start[FieldOf(m)] # True) =>
              {m \in Methods : heap[chainObj][FieldOf(m)] = True} = Invoked

C2_Witness ==
    /\ chainObj \in DOMAIN heap
    /\ hist = <<"addKraut", "addKetchup", "addKraut">>
    /\ start.ketchup = False
    /\ start.mustard = False
    /\ start.kraut = Undefined
    /\ heap[chainObj].ketchup = True
    /\ heap[chainObj].mustard = False
    /\ heap[chainObj].kraut = True

\* C3: an option that is true on an object stays true on that object in every
\* later state: no step sets it back to false or undefined.
C3_OptionsOneWay ==
    [][\A i \in DOMAIN heap : \A m \in Methods :
          heap[i][FieldOf(m)] = True =>
              (i \in DOMAIN heap' /\ heap'[i][FieldOf(m)] = True)]_vars

C3_Witness ==
    /\ Len(hist) >= 2
    /\ hist[1] = "addKetchup"
    /\ hist[2] = "addKetchup"
    /\ start.ketchup = Undefined
    /\ cur \in DOMAIN heap
    /\ heap[cur].ketchup = True

\* C4: the bread of every object is the bread its constructor was given, in
\* every state reached by any sequence of constructor and add-calls.
C4_BreadImmutable ==
    \A i \in DOMAIN heap :
        /\ i \in DOMAIN made
        /\ heap[i].bread = made[i]

C4_Witness ==
    /\ Len(heap) = 2
    /\ made = <<"gluten free", "white">>
    /\ Invoked = Methods
    /\ fresh = <<>>
    /\ chainObj = 1

\* C5: calling the same add-method twice in a row leaves the object as the first
\* call left it; and in every reachable state, applying a method twice to the
\* object in hand gives the same heap and the same result as applying it once.
C5_Idempotent ==
    /\ (Len(hist) >= 2 /\ hist[Len(hist)] = hist[Len(hist) - 1]) =>
          (cur \in DOMAIN heap /\ heap[cur] = before)
    /\ cur \in DOMAIN heap =>
          \A m \in Methods :
              LET once == Call(m, heap, cur)
              IN  Call(m, once.heap, once.ret) = once

C5_Witness ==
    /\ hist = <<"addKraut", "addKraut">>
    /\ start.kraut = False
    /\ cur \in DOMAIN heap
    /\ heap[cur].kraut = True

\* C6: in every reachable state any two add-methods applied in either order give
\* the same heap and result; and the object of a chain is what the set of
\* methods called, applied in one fixed order to the object as the chain found
\* it, gives, whatever the order of the calls was.
C6_OrderIndependent ==
    /\ cur \in DOMAIN heap =>
          \A x \in Methods, y \in Methods :
              LET xr == Call(x, heap, cur)
                  yr == Call(y, heap, cur)
              IN  Call(y, xr.heap, xr.ret) = Call(x, yr.heap, yr.ret)
    /\ chainObj \in DOMAIN heap =>
          heap[chainObj] = InFixedOrder(start, Invoked)

C6_Witness ==
    /\ hist = <<"addKraut", "addMustard", "addKetchup">>
    /\ CreatedWithBaseOnly
    /\ chainObj \in DOMAIN heap
    /\ heap[chainObj].ketchup = True
    /\ heap[chainObj].mustard = True
    /\ heap[chainObj].kraut = True

\* C7: every add-call returns the object it was called on, so the value of the
\* chained expression is the object the chain started on, and the heap holds
\* exactly one object per constructor call.
C7_ReturnsSameInstance ==
    /\ cur = chainObj
    /\ Len(heap) = Len(made)

C7_Witness ==
    /\ Len(hist) = 3
    /\ Len(heap) = 2
    /\ Len(made) = 2
    /\ chainObj = 1
    /\ cur = 1

\* The chain of lunch.ts:  new HotDog('gluten free').addKetchup().addMustard()
LunchChainDone ==
    /\ fresh = <<"gluten free", Undefined, Undefined, Undefined>>
    /\ hist = <<"addKetchup", "addMustard">>

\* C8 as stated: the chain of lunch.ts yields bread 'gluten free', ketchup true,
\* mustard true and kraut false.
C8_Original ==
    LunchChainDone =>
        /\ cur \in DOMAIN heap
        /\ heap[cur] = [bread |-> "gluten free", ketchup |-> True,
                        mustard |-> True, kraut |-> False]

\* C8 amended: the chain of lunch.ts yields bread 'gluten free', ketchup true,
\* mustard true and kraut unset (undefined, not the boolean false).
C8_LunchChain ==
    LunchChainDone =>
        /\ cur \in DOMAIN heap
        /\ heap[cur] = [bread |-> "gluten free", ketchup |-> True,
                        mustard |-> True, kraut |-> Undefined]

C8_Witness ==
    /\ LunchChainDone
    /\ cur \in DOMAIN heap
    /\ heap[cur].mustard = True

\* ------------------------------------------------------------------------
\* Singleton: properties
\* ------------------------------------------------------------------------
SomeoneCalled == \E c \in Clients : gets[c] > 0

\* C9: after any sequence of getInstance() calls the Settings constructor has
\* run at most once, exactly once if getInstance() was called at all, and every
\* call returned that one object, which is the static field.
C9_SingleInstance ==
    /\ Len(settingsHeap) <= 1
    /\ SomeoneCalled => (Len(settingsHeap) = 1 /\ instance = 1)
    /\ returned \subseteq {instance}
    /\ \A c \in Clients : gets[c] > 0 => got[c] = instance

C9_Witness ==
    /\ \A c \in Clients : gets[c] >= 2
    /\ Len(settingsHeap) = 1
    /\ returned = {1}

\* ------------------------------------------------------------------------
\* Prototype: properties
\* ------------------------------------------------------------------------
\* The two Object.create calls of workout.ts have run: bench, then benchSubset
WorkoutScriptDone ==
    /\ Len(derivs) = 2
    /\ derivs[1].proto = 1
    /\ derivs[1].props = [k \in {"name"} |-> [value |-> "barbell bench"]]
    /\ derivs[2].proto = 2
    /\ derivs[2].props = [k \in {"incline"} |-> [value |-> True]]

\* C10: an object made by Object.create(source, props) has source as its
\* prototype and resolves each key of props to the value given and every other
\* key to what the source resolves; the source resolves what it did before the
\* call.  In workout.ts: benchSubset resolves incline = true,
\* name = 'barbell bench' and startWorkout; workout has no name and bench has no
\* incline.
C10_Derivation ==
    /\ Len(objs) = Len(derivs) + 1
    /\ \A i \in DOMAIN derivs :
          LET d == derivs[i]
          IN  /\ getPrototypeOf(objs, i + 1) = d.proto
              /\ \A k \in AllKeys :
                    Get(objs, i + 1, k) =
                        IF k \in DOMAIN d.props THEN d.props[k].value
                        ELSE d.sourceView[k]
              /\ View(objs, d.proto) = d.sourceView
    /\ WorkoutScriptDone =>
          /\ Get(objs, 3, "incline") = True
          /\ Get(objs, 3, "name") = "barbell bench"
          /\ Get(objs, 3, "startWorkout") = "function startWorkout"
          /\ Get(objs, 2, "name") = "barbell bench"
          /\ Get(objs, 2, "startWorkout") = "function startWorkout"
          /\ Get(objs, 2, "incline") = Undefined
          /\ Get(objs, 1, "name") = Undefined
          /\ Get(objs, 1, "incline") = Undefined

C10_Witness ==
    /\ WorkoutScriptDone
    /\ Len(objs) = 3
    /\ console = True

====
